---- MODULE Spec2Model ----
(***************************************************************************)
(* A model of sqlglot's Generator (src/sqlglot/generator.py): the renderer *)
(* that turns an expression tree back into SQL text.                       *)
(*                                                                         *)
(* Text is a sequence of atoms: a word ("SELECT", "a", "("), a single      *)
(* space SP or a line break NL.  An expression is a record with a `key`:   *)
(* "none" (absent), "str" (a Python str), "token" (a Token) or the key of  *)
(* an Expression node, which then carries `args`.                          *)
(*                                                                         *)
(* The renderer `self` is a record of the instance fields; the field `exc` *)
(* is the exception in flight ("" when there is none): once it is set,     *)
(* every later step of the call is skipped, as a Python raise does.        *)
(***************************************************************************)
EXTENDS Integers, Sequences, FiniteSets, TLC

VARIABLES opts, transforms, pretty, level, unsupported_messages,
          expression, result, logged, entry,
          instances, threads

vars == <<opts, transforms, pretty, level, unsupported_messages,
          expression, result, logged, entry, instances, threads>>

(***************************************************************************)
(* Text                                                                    *)
(***************************************************************************)
SP == " "
NL == "\n"

IsSpace(c) == c \in {SP, NL}

Spaces(n) == [i \in 1..n |-> SP]

\* str.strip(): the text between its first and its last non-blank atom
Strip(t) ==
  LET keep == {i \in 1..Len(t) : ~IsSpace(t[i])}
  IN IF keep = {} THEN <<>>
     ELSE LET first == CHOOSE i \in keep : \A j \in keep : i <= j
              last == CHOOSE i \in keep : \A j \in keep : j <= i
          IN SubSeq(t, first, last)

\* str.upper() on the words the trees use
Upper(w) ==
  CASE w = "table" -> "TABLE"
    [] w = "view" -> "VIEW"
    [] OTHER -> w

UpperText(t) == [i \in 1..Len(t) |-> Upper(t[i])]

(***************************************************************************)
(* Expressions                                                             *)
(***************************************************************************)
None == [key |-> "none"]

Str(t) == [key |-> "str", text |-> t]

Token(tt, txt) == [key |-> "token", token_type |-> tt, text |-> txt]

Node(k, a) == [key |-> k, args |-> a]

IsNode(e) == e.key \notin {"none", "str", "token", "list"}

\* expression.args.get(k)
Has(e, k) == IsNode(e) /\ k \in DOMAIN e.args
Arg(e, k) == IF Has(e, k) THEN e.args[k] ELSE None

\* expression.args.get(k) used as a flag
Flag(e, k) == Has(e, k) /\ e.args[k] = TRUE

\* expression.args.get(k, [])
ListArg(e, k) == IF Has(e, k) THEN e.args[k] ELSE <<>>

\* Python truthiness of what sql() is handed
Truthy(e) ==
  CASE e.key = "none" -> FALSE
    [] e.key = "str" -> e.text # <<>>
    [] OTHER -> TRUE

\* The class of an expression, as a key of the transform table
ClassOf(e) ==
  CASE e.key = "token" -> "Token"
    [] e.key = "select" -> "exp.Select"
    [] e.key = "cast" -> "exp.Cast"
    [] e.key = "slash" -> "exp.Slash"
    [] e.key = "div" -> "exp.Div"
    [] e.key = "arrayagg" -> "exp.ArrayAgg"
    [] e.key = "hint" -> "exp.Hint"
    [] OTHER -> e.key

\* expression.token_type: a Token carries it, an Expression class declares it
TokenTypeOf(e) ==
  CASE e.key = "token" -> e.token_type
    [] e.key = "select" -> "TokenType.SELECT"
    [] e.key = "from" -> "TokenType.FROM"
    [] e.key = "join" -> "TokenType.JOIN"
    [] e.key = "where" -> "TokenType.WHERE"
    [] e.key = "group" -> "TokenType.GROUP"
    [] e.key = "having" -> "TokenType.HAVING"
    [] e.key = "order" -> "TokenType.ORDER"
    [] e.key = "union" -> "TokenType.UNION"
    [] e.key = "cte" -> "TokenType.WITH"
    [] OTHER -> "TokenType.NONE"

BODY_TOKENS ==
  {"TokenType.SELECT", "TokenType.FROM", "TokenType.JOIN", "TokenType.WHERE",
   "TokenType.GROUP", "TokenType.HAVING", "TokenType.ORDER", "TokenType.UNION",
   "TokenType.WITH"}

(***************************************************************************)
(* The transform table.  An entry is a literal string or a function.       *)
(***************************************************************************)
Lit(t) == [type |-> "lit", text |-> t, fn |-> ""]
Fn(f) == [type |-> "fn", text |-> <<>>, fn |-> f]
NoEntry == [type |-> "none", text |-> <<>>, fn |-> ""]

TRANSFORMS ==
  [k \in {"TokenType.INT", "TokenType.BIGINT", "TokenType.VARCHAR", "exp.ArrayAgg"} |->
     CASE k = "TokenType.INT" -> Lit(<<"INT">>)
       [] k = "TokenType.BIGINT" -> Lit(<<"BIGINT">>)
       [] k = "TokenType.VARCHAR" -> Lit(<<"VARCHAR">>)
       [] k = "exp.ArrayAgg" -> Fn("ARRAY_AGG")]

\* {**self.TRANSFORMS, **(opts.get('transforms') or {})}
MergeTransforms(base, over) ==
  [k \in DOMAIN base \cup DOMAIN over |-> IF k \in DOMAIN over THEN over[k] ELSE base[k]]

\* dict.get
Get(table, k) == IF k \in DOMAIN table THEN table[k] ELSE NoEntry

\* Python truthiness of a table entry
EntryTruthy(x) == x.type = "fn" \/ (x.type = "lit" /\ x.text # <<>>)

(***************************************************************************)
(* Renderer configuration defaults                                         *)
(***************************************************************************)
Pad == 2
IndentWidth == 4
IDENTIFIER_QUOTE == "\""
STRING_QUOTE == "'"

IGNORE == "ErrorLevel.IGNORE"
WARN == "ErrorLevel.WARN"
RAISE == "ErrorLevel.RAISE"

NoExc == ""

\* what a renderer hands back: the text, and the renderer after rendering it
Ret(self, sql) == [sql |-> sql, self |-> self]

\* a KeyError raised by expression.args[k]
RaiseKeyError(self) ==
  Ret(IF self.exc = NoExc THEN [self EXCEPT !.exc = "KeyError"] ELSE self, <<>>)

(***************************************************************************)
(* Formatting engine                                                       *)
(***************************************************************************)
\* indent(sql, level, pad) with an explicit level
indent_at(self, sql, lvl, pad) ==
  IF self.pretty THEN Spaces(lvl * IndentWidth + pad) \o sql ELSE sql

\* indent(sql, pad=pad): level defaults to self._level
indent(self, sql, pad) == indent_at(self, sql, self.level, pad)

\* sep losing the separator's own text in pretty mode
sep_NewlineOnly(self, s) == IF self.pretty THEN <<NL>> ELSE s

sep(self, s) == IF self.pretty THEN Strip(s) \o <<NL>> ELSE s

seg(self, sql, s, pad) == sep(self, s) \o indent(self, sql, pad)

\* self.unsupported(message)
unsupported(self, message) ==
  IF self.exc # NoExc THEN self
  ELSE [self EXCEPT !.unsupported_messages = Append(@, message)]

\* assignment to self._level / self.pretty, skipped once an exception is in flight
SetLevel(self, l) == IF self.exc # NoExc THEN self ELSE [self EXCEPT !.level = l]
SetPretty(self, p) == IF self.exc # NoExc THEN self ELSE [self EXCEPT !.pretty = p]

\* '\n'.join(prefix + line for line in sql.split('\n')) without the first
\* prefix: the atom t[i] moves right by one prefix per line break before it
IndentLines(t, prefix) ==
  LET P == Len(prefix)
      breaks(i) == Cardinality({m \in 1..i : t[m] = NL})
      pos(i) == i + P * breaks(i - 1)
      N == Len(t) + P * breaks(Len(t))
  IN [j \in 1..N |->
        IF \E i \in 1..Len(t) : pos(i) = j
          THEN t[CHOOSE i \in 1..Len(t) : pos(i) = j]
          ELSE SP]

indent_newlines(self, sql, skip_first) ==
  IF ~self.pretty THEN sql
  ELSE LET prefix == Spaces(self.level * IndentWidth + Pad)
       IN (IF skip_first THEN <<>> ELSE prefix) \o IndentLines(sql, prefix)

(***************************************************************************)
(* sql() and the renderers it dispatches to                                *)
(***************************************************************************)
RECURSIVE Sql(_, _), SqlKey(_, _, _), SqlJoin(_, _, _), Builtin(_, _), Apply(_, _, _),
          expressions(_, _, _), expressions_items(_, _, _), op_expressions(_, _, _),
          wrap(_, _), binary(_, _, _, _), cte_items(_, _), case_arms(_, _),
          select_sql(_, _), from_sql(_, _), join_sql(_, _), lateral_sql(_, _),
          where_sql(_, _), group_sql(_, _), having_sql(_, _), order_sql(_, _),
          ordered_sql(_, _), limit_sql(_, _), cte_sql(_, _), union_sql(_, _),
          alias_sql(_, _), case_sql(_, _), create_sql(_, _), drop_sql(_, _),
          fileformat_sql(_, _), hint_sql(_, _), cast_sql(_, _), div_sql(_, _),
          paren_sql(_, _), in_sql(_, _), no_format(_, _), merge_sql(_, _)

ESCAPE_CODE == "__sqlglot_escape__"

\* The Token branch of sql().  `identify` is passed only by column_sql and
\* table_sql and self.identify defaults to False, so that disjunct is off.
TokenSql(self, e) ==
  LET text == [i \in 1..Len(e.text) |->
                 IF e.text[i] = ESCAPE_CODE THEN self.opts.escape ELSE e.text[i]]
  IN IF e.token_type = "TokenType.IDENTIFIER"
       THEN Ret(self, <<IDENTIFIER_QUOTE>> \o text \o <<IDENTIFIER_QUOTE>>)
     ELSE IF e.token_type = "TokenType.STRING"
       THEN Ret(self, <<STRING_QUOTE>> \o text \o <<STRING_QUOTE>>)
     ELSE Ret(self, text)

\* transforms.get(expression.__class__) or transforms.get(expression.token_type)
Lookup(table, e) ==
  LET byClass == Get(table, ClassOf(e))
  IN IF EntryTruthy(byClass) THEN byClass ELSE Get(table, TokenTypeOf(e))

Sql(self, e) ==
  IF self.exc # NoExc THEN Ret(self, <<>>)
  ELSE IF ~Truthy(e) THEN Ret(self, <<>>)
  ELSE IF e.key = "str" THEN Ret(self, e.text)
  ELSE LET transform == Lookup(self.transforms, e)
       IN IF transform.type = "fn" THEN Apply(self, transform.fn, e)
          ELSE IF EntryTruthy(transform) THEN Ret(self, transform.text)
          ELSE IF e.key = "token" THEN TokenSql(self, e)
          ELSE Builtin(self, e)

\* self.sql(expression, key)
SqlKey(self, e, k) == Sql(self, Arg(e, k))

\* getattr(self, f"{expression.key}_sql")(expression)
Builtin(self, e) ==
  CASE e.key = "select" -> select_sql(self, e)
    [] e.key = "from" -> from_sql(self, e)
    [] e.key = "join" -> join_sql(self, e)
    [] e.key = "lateral" -> lateral_sql(self, e)
    [] e.key = "where" -> where_sql(self, e)
    [] e.key = "group" -> group_sql(self, e)
    [] e.key = "having" -> having_sql(self, e)
    [] e.key = "order" -> order_sql(self, e)
    [] e.key = "ordered" -> ordered_sql(self, e)
    [] e.key = "limit" -> limit_sql(self, e)
    [] e.key = "cte" -> cte_sql(self, e)
    [] e.key = "union" -> union_sql(self, e)
    [] e.key = "alias" -> alias_sql(self, e)
    [] e.key = "case" -> case_sql(self, e)
    [] e.key = "create" -> create_sql(self, e)
    [] e.key = "drop" -> drop_sql(self, e)
    [] e.key = "fileformat" -> fileformat_sql(self, e)
    [] e.key = "hint" -> hint_sql(self, e)
    [] e.key = "cast" -> cast_sql(self, e)
    [] e.key = "div" -> div_sql(self, e)
    [] e.key = "paren" -> paren_sql(self, e)
    [] e.key = "in" -> in_sql(self, e)
    [] e.key = "merge" -> merge_sql(self, e)
    [] e.key = "eq" -> binary(self, e, "=", FALSE)
    [] e.key = "gt" -> binary(self, e, ">", FALSE)
    [] e.key = "slash" -> binary(self, e, "/", FALSE)
    [] e.key = "and" -> binary(self, e, "AND", self.pretty)
    [] e.key = "or" -> binary(self, e, "OR", self.pretty)

\* transform(self, expression) for a function entry: the default table's
\* ARRAY_AGG and the functions a dialect may register
Apply(self, fn, e) ==
  CASE fn = "ARRAY_AGG" ->
         LET this == SqlKey(self, e, "this")
         IN Ret(this.self, <<"ARRAY_AGG", "(">> \o this.sql \o <<")">>)
    [] fn = "TRY_CAST" ->
         LET this == SqlKey(self, e, "this")
             to == SqlKey(this.self, e, "to")
         IN Ret(to.self, <<"TRY_CAST", "(">> \o this.sql \o <<SP, "AS", SP>> \o to.sql \o <<")">>)
    [] fn = "EMPTY" -> Ret(self, <<>>)

\* no_format(lambda: self.sql(e)): e rendered with pretty switched off
no_format(self, e) ==
  LET original == self.pretty
      r == Sql(SetPretty(self, FALSE), e)
  IN Ret(SetPretty(r.self, original), r.sql)

\* sep.join(self.sql(e) for e in es)
SqlJoin(self, es, s) ==
  IF es = <<>> THEN Ret(self, <<>>)
  ELSE LET r == Sql(self, Head(es))
           rest == SqlJoin(r.self, Tail(es), s)
       IN Ret(rest.self, IF Tail(es) = <<>> THEN r.sql ELSE r.sql \o s \o rest.sql)

wrap_NoRestore(self, e) ==
  LET s1 == SetLevel(self, self.level + 1)
      r == SqlKey(s1, e, "this")
      this_sql == indent(r.self, r.sql, 0)
  IN Ret(r.self, <<"(">> \o sep(r.self, <<>>) \o this_sql \o seg(r.self, <<")">>, <<>>, 0))

wrap(self, e) ==
  LET s1 == SetLevel(self, self.level + 1)
      r == SqlKey(s1, e, "this")
      this_sql == indent(r.self, r.sql, 0)
      s2 == SetLevel(r.self, r.self.level - 1)
  IN Ret(s2, <<"(">> \o sep(s2, <<>>) \o this_sql \o seg(s2, <<")">>, <<>>, 0))

binary(self, e, op, newline) ==
  LET s == IF newline THEN <<NL>> ELSE <<SP>>
      this == SqlKey(self, e, "this")
      right == SqlKey(this.self, e, "expression")
  IN Ret(right.self, this.sql \o s \o <<op, SP>> \o right.sql)

\* the items of expressions(), each rendered under no_format and indented
expressions_items(self, es, pad) ==
  IF es = <<>> THEN Ret(self, <<>>)
  ELSE LET lead == IF self.pretty THEN <<SP, SP>> ELSE <<>>
           r == no_format(self, Head(es))
           item == indent(r.self, lead \o r.sql, pad)
           rest == expressions_items(r.self, Tail(es), pad)
       IN Ret(rest.self, <<item>> \o rest.sql)

RECURSIVE JoinTexts(_, _)
JoinTexts(ts, s) ==
  IF ts = <<>> THEN <<>>
  ELSE IF Tail(ts) = <<>> THEN Head(ts)
  ELSE Head(ts) \o s \o JoinTexts(Tail(ts), s)

expressions(self, e, flat) ==
  IF ~Has(e, "expressions") THEN RaiseKeyError(self)
  ELSE IF flat THEN SqlJoin(self, e.args.expressions, <<",", SP>>)
  ELSE LET s == sep(self, <<",", SP>>)
           r == expressions_items(self, e.args.expressions, 0)
       IN Ret(r.self, JoinTexts(r.sql, s))

op_expressions(self, op, e) ==
  LET r == expressions(self, e, FALSE)
  IN Ret(r.self, seg(r.self, op, <<SP>>, 0) \o sep(r.self, <<SP>>) \o r.sql)

\* helper.csv(*args, sep): the non-empty fragments joined by sep
RECURSIVE csv(_, _)
csv(ts, s) ==
  IF ts = <<>> THEN <<>>
  ELSE IF Head(ts) = <<>> THEN csv(Tail(ts), s)
  ELSE LET rest == csv(Tail(ts), s)
       IN IF rest = <<>> THEN Head(ts) ELSE Head(ts) \o s \o rest

\* [self.sql(e) for e in es]: the list of the fragments
RECURSIVE SqlEach(_, _)
SqlEach(self, es) ==
  IF es = <<>> THEN Ret(self, <<>>)
  ELSE LET r == Sql(self, Head(es))
           rest == SqlEach(r.self, Tail(es))
       IN Ret(rest.self, <<r.sql>> \o rest.sql)

\* select_sql with GROUP BY emitted before WHERE
select_sql_GroupFirst(self, e) ==
  LET hint == SqlKey(self, e, "hint")
      distinct == IF Flag(e, "distinct") THEN <<SP, "DISTINCT">> ELSE <<>>
      exprs == expressions(hint.self, e, FALSE)
      head == <<"SELECT">> \o hint.sql \o distinct \o sep(exprs.self, <<SP>>) \o exprs.sql
      from == SqlKey(exprs.self, e, "from")
      laterals == SqlEach(from.self, ListArg(e, "laterals"))
      joins == SqlEach(laterals.self, ListArg(e, "joins"))
      group == SqlKey(joins.self, e, "group")
      where == SqlKey(group.self, e, "where")
      having == SqlKey(where.self, e, "having")
      order == SqlKey(having.self, e, "order")
      limit == SqlKey(order.self, e, "limit")
  IN Ret(limit.self,
         csv(<<head, from.sql>> \o laterals.sql \o joins.sql
               \o <<group.sql, where.sql, having.sql, order.sql, limit.sql>>, <<>>))

select_sql(self, e) ==
  LET hint == SqlKey(self, e, "hint")
      distinct == IF Flag(e, "distinct") THEN <<SP, "DISTINCT">> ELSE <<>>
      exprs == expressions(hint.self, e, FALSE)
      head == <<"SELECT">> \o hint.sql \o distinct \o sep(exprs.self, <<SP>>) \o exprs.sql
      from == SqlKey(exprs.self, e, "from")
      laterals == SqlEach(from.self, ListArg(e, "laterals"))
      joins == SqlEach(laterals.self, ListArg(e, "joins"))
      where == SqlKey(joins.self, e, "where")
      group == SqlKey(where.self, e, "group")
      having == SqlKey(group.self, e, "having")
      order == SqlKey(having.self, e, "order")
      limit == SqlKey(order.self, e, "limit")
  IN Ret(limit.self,
         csv(<<head, from.sql>> \o laterals.sql \o joins.sql
               \o <<where.sql, group.sql, having.sql, order.sql, limit.sql>>, <<>>))

from_sql(self, e) ==
  IF ~Has(e, "expressions") THEN RaiseKeyError(self)
  ELSE LET r == SqlJoin(self, e.args.expressions, <<",", SP>>)
       IN Ret(r.self, seg(r.self, <<"FROM">>, <<SP>>, 0) \o <<SP>> \o r.sql)

group_sql(self, e) == op_expressions(self, <<"GROUP", SP, "BY">>, e)

having_sql(self, e) ==
  LET r == SqlKey(self, e, "this")
      this == indent_newlines(r.self, r.sql, FALSE)
  IN Ret(r.self, seg(r.self, <<"HAVING">>, <<SP>>, 0) \o sep(r.self, <<SP>>) \o this)

join_sql(self, e) ==
  LET side == SqlKey(self, e, "side")
      kind == SqlKey(side.self, e, "kind")
      op_sql == seg(kind.self, csv(<<side.sql, kind.sql, <<"JOIN">>>>, <<SP>>), <<SP>>, 0)
      on == SqlKey(kind.self, e, "on")
      on_sql == IF on.sql = <<>> THEN <<>>
                ELSE seg(on.self, <<"ON">>, <<SP>>, Pad) \o <<SP>>
                       \o indent_newlines(on.self, on.sql, TRUE)
      expression_sql == SqlKey(on.self, e, "expression")
      this_sql == SqlKey(expression_sql.self, e, "this")
  IN Ret(this_sql.self, expression_sql.sql \o op_sql \o <<SP>> \o this_sql.sql \o on_sql)

lateral_sql(self, e) ==
  LET this == SqlKey(self, e, "this")
      op_sql == seg(this.self,
                    <<"LATERAL", SP, "VIEW">>
                      \o (IF Flag(e, "outer") THEN <<SP, "OUTER">> ELSE <<>>), <<SP>>, 0)
      alias == SqlKey(this.self, e, "table")
      columns == SqlJoin(alias.self, ListArg(e, "columns"), <<",", SP>>)
  IN Ret(columns.self,
         op_sql \o sep(columns.self, <<SP>>) \o this.sql \o <<SP>> \o alias.sql
           \o <<SP, "AS", SP>> \o columns.sql)

limit_sql(self, e) ==
  LET r == SqlKey(self, e, "this")
  IN Ret(r.self, seg(self, <<"LIMIT">>, <<SP>>, 0) \o <<SP>> \o r.sql)

order_sql(self, e) == op_expressions(self, <<"ORDER", SP, "BY">>, e)

ordered_sql(self, e) ==
  LET desc == SqlKey(self, e, "desc")
      this == SqlKey(desc.self, e, "this")
  IN Ret(this.self, this.sql \o (IF desc.sql = <<>> THEN <<>> ELSE <<SP>> \o desc.sql))

where_sql(self, e) ==
  LET r == SqlKey(self, e, "this")
      this == indent_newlines(r.self, r.sql, FALSE)
  IN Ret(r.self, seg(r.self, <<"WHERE">>, <<SP>>, 0) \o sep(r.self, <<SP>>) \o this)

union_sql(self, e) ==
  LET this == SqlKey(self, e, "this")
  IN IF ~Has(e, "distinct") THEN RaiseKeyError(this.self)
     ELSE LET op == seg(this.self,
                        <<"UNION">> \o (IF e.args.distinct THEN <<>> ELSE <<SP, "ALL">>),
                        <<SP>>, 0)
              r == SqlKey(this.self, e, "expression")
              right == indent(r.self, r.sql, 0)
          IN Ret(r.self, this.sql \o op \o sep(r.self, <<SP>>) \o right)

\* ', '.join(f"{self.sql(e, 'alias')} AS {self.wrap(e)}" for e in expressions)
cte_items(self, es) ==
  IF es = <<>> THEN Ret(self, <<>>)
  ELSE LET alias == SqlKey(self, Head(es), "alias")
           body == wrap(alias.self, Head(es))
           item == alias.sql \o <<SP, "AS", SP>> \o body.sql
           rest == cte_items(body.self, Tail(es))
       IN Ret(rest.self, IF Tail(es) = <<>> THEN item ELSE item \o <<",", SP>> \o rest.sql)

cte_sql(self, e) ==
  IF ~Has(e, "expressions") THEN RaiseKeyError(self)
  ELSE LET sql == cte_items(self, e.args.expressions)
           recursive == IF Flag(e, "recursive") THEN <<"RECURSIVE", SP>> ELSE <<>>
           this == SqlKey(sql.self, e, "this")
       IN Ret(this.self,
              <<"WITH", SP>> \o recursive \o sql.sql \o sep(sql.self, <<SP>>)
                \o indent(this.self, this.sql, 0))

alias_sql(self, e) ==
  LET alias == SqlKey(self, e, "alias")
      to_sql == IF alias.sql = <<>> THEN <<>> ELSE <<SP, "AS", SP>> \o alias.sql
  IN IF ~Has(e, "this") THEN RaiseKeyError(alias.self)
     ELSE IF TokenTypeOf(e.args.this) \in BODY_TOKENS
       THEN IF alias.self.pretty
              THEN LET w == wrap(alias.self, e) IN Ret(w.self, w.sql \o to_sql)
              ELSE LET r == SqlKey(alias.self, e, "this")
                   IN Ret(r.self, <<"(">> \o r.sql \o <<")">> \o to_sql)
     ELSE LET r == SqlKey(alias.self, e, "this") IN Ret(r.self, r.sql \o to_sql)

\* [f"WHEN {self.sql(e, 'this')} THEN {self.sql(e, 'true')}" for e in ifs]
case_arms(self, es) ==
  IF es = <<>> THEN Ret(self, <<>>)
  ELSE LET this == SqlKey(self, Head(es), "this")
           true == SqlKey(this.self, Head(es), "true")
           arm == <<"WHEN", SP>> \o this.sql \o <<SP, "THEN", SP>> \o true.sql
           rest == case_arms(true.self, Tail(es))
       IN Ret(rest.self, <<arm>> \o rest.sql)

\* ''.join(self.seg(e, pad=pad) for e in ifs)
RECURSIVE SegEach(_, _, _)
SegEach(self, ts, pad) ==
  IF ts = <<>> THEN <<>>
  ELSE seg(self, Head(ts), <<SP>>, pad) \o SegEach(self, Tail(ts), pad)

\* case_sql leaving the global pretty flag set when it returns
case_sql_NoRestore(self, e) ==
  LET pad == Pad + 2
      r == SqlKey(self, e, "this")
      this == IF r.sql = <<>> THEN <<>> ELSE <<SP>> \o r.sql
  IN IF ~Has(e, "ifs") THEN RaiseKeyError(r.self)
     ELSE LET arms == case_arms(r.self, e.args.ifs)
              default == SqlKey(arms.self, e, "default")
              ifs == IF Arg(e, "default") # None
                       THEN arms.sql \o << <<"ELSE", SP>> \o default.sql >>
                       ELSE arms.sql
              s1 == SetPretty(default.self, default.self.opts.pretty)
              case == <<"CASE">> \o this \o SegEach(s1, ifs, pad)
                        \o seg(s1, <<"END">>, <<SP>>, Pad)
          IN Ret(s1, case)

case_sql(self, e) ==
  LET pad == Pad + 2
      r == SqlKey(self, e, "this")
      this == IF r.sql = <<>> THEN <<>> ELSE <<SP>> \o r.sql
  IN IF ~Has(e, "ifs") THEN RaiseKeyError(r.self)
     ELSE LET arms == case_arms(r.self, e.args.ifs)
              default == SqlKey(arms.self, e, "default")
              ifs == IF Arg(e, "default") # None
                       THEN arms.sql \o << <<"ELSE", SP>> \o default.sql >>
                       ELSE arms.sql
              original == default.self.pretty
              s1 == SetPretty(default.self, default.self.opts.pretty)
              case == <<"CASE">> \o this \o SegEach(s1, ifs, pad)
                        \o seg(s1, <<"END">>, <<SP>>, Pad)
          IN Ret(SetPretty(s1, original), case)

cast_sql(self, e) ==
  LET this == SqlKey(self, e, "this")
      to == SqlKey(this.self, e, "to")
  IN Ret(to.self, <<"CAST", "(">> \o this.sql \o <<SP, "AS", SP>> \o to.sql \o <<")">>)

\* div_sql emitting a native DIV operator
div_sql_Native(self, e) == binary(self, e, "DIV", FALSE)

div_sql(self, e) ==
  IF ~Has(e, "this") \/ ~Has(e, "expression") THEN RaiseKeyError(self)
  ELSE Sql(self, Node("cast",
                      [this |-> Node("slash", [this |-> e.args.this,
                                               expression |-> e.args.expression]),
                       to |-> Token("TokenType.INT", <<"INT">>)]))

paren_sql(self, e) ==
  LET r == no_format(self, Arg(e, "this"))
  IN Ret(r.self, <<"(">> \o r.sql \o <<")">>)

in_sql(self, e) ==
  LET query == no_format(self, Arg(e, "query"))
      inner == IF query.sql # <<>> THEN query ELSE expressions(query.self, e, TRUE)
      this == SqlKey(inner.self, e, "this")
  IN Ret(this.self, this.sql \o <<SP, "IN", SP, "(">> \o inner.sql \o <<")">>)

create_sql(self, e) ==
  LET this == SqlKey(self, e, "this")
      kind == SqlKey(this.self, e, "kind")
      body == SqlKey(kind.self, e, "expression")
      expression_sql == IF body.sql = <<>> THEN <<>>
                        ELSE <<"AS">> \o sep(body.self, <<SP>>) \o body.sql
      temporary == IF Flag(e, "temporary") THEN <<SP, "TEMPORARY">> ELSE <<>>
      replace == IF Flag(e, "replace") THEN <<SP, "OR", SP, "REPLACE">> ELSE <<>>
      exists_sql == IF Flag(e, "exists") THEN <<SP, "IF", SP, "NOT", SP, "EXISTS">> ELSE <<>>
      ff == SqlKey(body.self, e, "file_format")
      file_format == IF ff.sql = <<>> THEN <<SP>> ELSE <<SP>> \o ff.sql \o <<SP>>
      eng == SqlKey(ff.self, e, "engine")
      engine == IF eng.sql = <<>> THEN <<>> ELSE <<"ENGINE", "=">> \o eng.sql
      auto == SqlKey(eng.self, e, "auto_increment")
      auto_increment == IF auto.sql = <<>> THEN <<>> ELSE <<"AUTO_INCREMENT", "=">> \o auto.sql
      character_set == SqlKey(auto.self, e, "character_set")
      coll == SqlKey(character_set.self, e, "collate")
      collate == IF coll.sql = <<>> THEN <<>> ELSE <<"COLLATE", "=">> \o coll.sql
      comm == SqlKey(coll.self, e, "comment")
      comment == IF comm.sql = <<>> THEN <<>> ELSE <<"COMMENT", "=">> \o comm.sql
      options == csv(<<engine, auto_increment, character_set.sql, collate, comment>>, <<SP>>)
  IN Ret(comm.self,
         <<"CREATE">> \o temporary \o replace \o <<SP>> \o UpperText(kind.sql) \o exists_sql
           \o <<SP>> \o this.sql \o file_format \o expression_sql \o options)

\* drop_sql reporting the missing kind as an unsupported construct
drop_sql_Reports(self, e) ==
  LET this == SqlKey(self, e, "this")
  IN IF ~Has(e, "kind") THEN Ret(unsupported(this.self, "DROP without kind"), <<>>)
     ELSE LET kind == UpperText(e.args.kind.text)
              exists_sql == IF Flag(e, "exists") THEN <<SP, "IF", SP, "EXISTS", SP>>
                            ELSE <<SP>>
          IN Ret(this.self, <<"DROP", SP>> \o kind \o exists_sql \o this.sql)

drop_sql(self, e) ==
  LET this == SqlKey(self, e, "this")
  IN IF ~Has(e, "kind") THEN RaiseKeyError(this.self)
     ELSE LET kind == UpperText(e.args.kind.text)
              exists_sql == IF Flag(e, "exists") THEN <<SP, "IF", SP, "EXISTS", SP>>
                            ELSE <<SP>>
          IN Ret(this.self, <<"DROP", SP>> \o kind \o exists_sql \o this.sql)

\* a new renderer with no options: what Expression.sql() renders with
Fresh ==
  [opts |-> [pretty |-> FALSE, unsupported_level |-> WARN,
             transforms |-> [k \in {} |-> NoEntry], escape |-> "'"],
   transforms |-> TRANSFORMS, pretty |-> FALSE, level |-> 0,
   unsupported_messages |-> <<>>, exc |-> NoExc]

\* str(x) inside an f-string: the text of a string or a token
Format(x) == IF x.key \in {"str", "token"} THEN x.text ELSE <<"<expression>">>

\* the grave accent merge_sql puts around the location
BACKTICK == "<grave>"

\* every args[...] subscript of merge_sql finds its key
MergeShape(e) ==
  /\ Has(e, "this") /\ Has(e.args.this, "this") /\ Has(e.args.this.args.this, "this")
  /\ Has(e.args.this, "alias")
  /\ Has(e, "using") /\ Has(e.args.using, "this") /\ Has(e.args.using, "alias")
  /\ Has(e, "condition")
  /\ Has(e, "matched_update") /\ Has(e, "not_matched_update")

\* the condition and the update clauses are rendered by expression.sql(), on
\* a renderer of their own; only an exception comes back to this one
merge_sql(self, e) ==
  IF ~MergeShape(e) THEN RaiseKeyError(self)
  ELSE LET on == Sql(Fresh, e.args.condition)
           matched == IF Truthy(e.args.matched_update)
                        THEN Sql(Fresh, e.args.matched_update) ELSE Ret(Fresh, <<>>)
           not_matched == IF Truthy(e.args.not_matched_update)
                            THEN Sql(Fresh, e.args.not_matched_update) ELSE Ret(Fresh, <<>>)
       IN IF <<on.self.exc, matched.self.exc, not_matched.self.exc>> # <<NoExc, NoExc, NoExc>>
            THEN RaiseKeyError(self)
          ELSE Ret(self,
                   <<"MERGE", SP, "INTO", SP, "delta.", BACKTICK>> \o e.args.this.args.this.args.this.text
                     \o <<BACKTICK, SP>> \o e.args.this.args.alias.text
                     \o <<SP, "USING", SP>> \o Format(e.args.using.args.this)
                     \o <<SP>> \o Format(e.args.using.args.alias)
                     \o <<SP, "ON", SP>> \o on.sql
                     \o (IF matched.sql # <<>>
                          THEN <<SP, "WHEN", SP, "MATCHED", SP, "THEN", SP>> \o matched.sql
                          ELSE <<>>)
                     \o (IF not_matched.sql # <<>>
                          THEN <<SP, "WHEN", SP, "NOT", SP, "MATCHED", SP, "THEN", SP>>
                                 \o not_matched.sql
                          ELSE <<>>))

\* hint_sql letting the hint's text through
hint_sql_Emits(self, e) ==
  LET this == SqlKey(self, e, "this")
  IN Ret(IF this.sql # <<>>
           THEN unsupported(this.self, "Hints are not supported")
           ELSE this.self,
         this.sql)

\* hint_sql recording nothing
hint_sql_Silent(self, e) ==
  LET this == SqlKey(self, e, "this")
  IN Ret(this.self, <<>>)

fileformat_sql(self, e) ==
  LET this == SqlKey(self, e, "this")
  IN Ret(IF this.sql # <<>>
           THEN unsupported(this.self, "File formats are not supported")
           ELSE this.self,
         <<>>)

hint_sql(self, e) ==
  LET this == SqlKey(self, e, "this")
  IN Ret(IF this.sql # <<>>
           THEN unsupported(this.self, "Hints are not supported")
           ELSE this.self,
         <<>>)

(***************************************************************************)
(* The renderer instance and generate()                                    *)
(***************************************************************************)
\* the instance as the renderers see it
Self ==
  [opts |-> opts, transforms |-> transforms, pretty |-> pretty, level |-> level,
   unsupported_messages |-> unsupported_messages, exc |-> NoExc]

Returned(sql) == [outcome |-> "return", sql |-> sql, message |-> ""]
Raised(exc, message) == [outcome |-> exc, sql |-> <<>>, message |-> message]
NoResult == [outcome |-> "none", sql |-> <<>>, message |-> ""]

\* a finished generate call
Ended(self, res, log) == [result |-> res, logged |-> log, self |-> self]

\* Outcome raising the last diagnostic instead of the first
Outcome_RaisesLast(r) ==
  LET sql == Strip(r.sql)
      msgs == r.self.unsupported_messages
  IN IF r.self.exc # NoExc THEN Ended(r.self, Raised(r.self.exc, ""), <<>>)
     ELSE IF r.self.opts.unsupported_level = IGNORE
       THEN Ended(r.self, Returned(sql), <<>>)
     ELSE IF msgs # <<>> /\ r.self.opts.unsupported_level = RAISE
       THEN Ended(r.self, Raised("UnsupportedError", msgs[Len(msgs)]), <<>>)
     ELSE Ended(r.self, Returned(sql), msgs)

\* How generate() ends after self.sql() rendered the tree into r = [sql, self]:
\* the instance it leaves, its result, and what went to logging.warning
Outcome(r) ==
  LET sql == Strip(r.sql)
      msgs == r.self.unsupported_messages
  IN IF r.self.exc # NoExc THEN Ended(r.self, Raised(r.self.exc, ""), <<>>)
     ELSE IF r.self.opts.unsupported_level = IGNORE
       THEN Ended(r.self, Returned(sql), <<>>)
     ELSE IF msgs # <<>> /\ r.self.opts.unsupported_level = RAISE
       THEN Ended(r.self, Raised("UnsupportedError", Head(msgs)), <<>>)
     ELSE Ended(r.self, Returned(sql), msgs)

\* generate that keeps the diagnostics of earlier calls
generate_NoReset(self, e) == Outcome(Sql(self, e))

\* generate(expression) on the renderer `self`: [self, result, logged]
generate(self, e) == Outcome(Sql([self EXCEPT !.unsupported_messages = <<>>], e))

\* __init__(**opts)
New(o) ==
  [opts |-> o, transforms |-> MergeTransforms(TRANSFORMS, o.transforms),
   pretty |-> o.pretty, level |-> 0, unsupported_messages |-> <<>>, exc |-> NoExc]

(***************************************************************************)
(* Inputs: options and trees                                               *)
(***************************************************************************)
MaxJoins == 2
MaxLevel == 1

Opts(p, lvl, tr) == [pretty |-> p, unsupported_level |-> lvl, transforms |-> tr, escape |-> "'"]

NoTransforms == [k \in {} |-> NoEntry]

Var(x) == Token("TokenType.VAR", <<x>>)
Number(x) == Token("TokenType.NUMBER", <<x>>)

Hint(content) == Node("hint", [this |-> content])
FileFormat(content) == Node("fileformat", [this |-> content])
Eq(l, r) == Node("eq", [this |-> l, expression |-> r])
Gt(l, r) == Node("gt", [this |-> l, expression |-> r])
And(l, r) == Node("and", [this |-> l, expression |-> r])
Alias(this, name) == Node("alias", [this |-> this, alias |-> Var(name)])
Paren(this) == Node("paren", [this |-> this])
Drop(name) == Node("drop", [this |-> Var(name), kind |-> Str(<<"table">>)])
DropNoKind(name) == Node("drop", [this |-> Var(name)])
Union(l, r, d) == Node("union", [this |-> l, expression |-> r, distinct |-> d])
Cte(ctes, this) == Node("cte", [expressions |-> ctes, this |-> this])
From(es) == Node("from", [expressions |-> es])
Select(es) == Node("select", [expressions |-> es])
With(e, k, v) == Node(e.key, [x \in DOMAIN e.args \cup {k} |-> IF x = k THEN v ELSE e.args[x]])
Without(e, k) == Node(e.key, [x \in DOMAIN e.args \ {k} |-> e.args[x]])

\* hint / file-format arguments: absent, present with empty content, with content
HintArgs == {None, Hint(Str(<<>>)), Hint(Var("BROADCAST"))}
FileFormatArgs == {None, FileFormat(None), FileFormat(Var("PARQUET"))}

WithOpt(e, k, v) == IF v = None THEN e ELSE With(e, k, v)

HintSelects == {WithOpt(Select(<<Var("a")>>), "hint", h) : h \in HintArgs}

Creates ==
  {WithOpt(WithOpt(Node("create", [this |-> Var("t"), kind |-> Str(<<"table">>)]),
                   "file_format", f), "expression", q) :
     f \in FileFormatArgs, q \in {None, With(Select(<<Var("a")>>), "hint", Hint(Var("BROADCAST")))}}

\* trees whose rendering stops in a KeyError, at several depths
Malformed ==
  {DropNoKind("t"),
   Paren(DropNoKind("t")),
   Select(<<DropNoKind("t")>>),
   Cte(<<Alias(DropNoKind("t"), "x")>>, Select(<<Var("a")>>)),
   With(Select(<<Var("a")>>), "from", From(<<Alias(Select(<<DropNoKind("t")>>), "s")>>)),
   Union(With(Select(<<Var("a")>>), "hint", Hint(Var("BROADCAST"))), DropNoKind("t"), TRUE)}

Wellformed ==
  {Drop("t"),
   Cte(<<Alias(Select(<<Var("b")>>), "x")>>, With(Select(<<Var("a")>>), "hint", Hint(Var("BROADCAST")))),
   With(Select(<<Var("a")>>), "from", From(<<Alias(Select(<<Var("b")>>), "s")>>)),
   Union(Node("create", [this |-> Var("t"), kind |-> Str(<<"table">>),
                         file_format |-> FileFormat(Var("PARQUET"))]),
         With(Select(<<Var("a")>>), "hint", Hint(Var("BROADCAST"))), FALSE)}

Trees == HintSelects \cup Creates \cup Malformed \cup Wellformed

Table(name) == Node("table", [this |-> Var(name)])

\* MERGE INTO delta.<t> d USING s x ON a = 1, with the update clauses given
Merge(matched, not_matched) ==
  Node("merge", [this |-> Alias(Table("t"), "d"),
                 using |-> Alias(Str(<<"s">>), "x"),
                 condition |-> Eq(Var("a"), Number("1")),
                 matched_update |-> matched,
                 not_matched_update |-> not_matched])

WellformedMerges ==
  {Merge(None, None),
   Merge(Var("UPDATE"), None),
   Merge(Var("UPDATE"), Var("INSERT")),
   Union(With(Select(<<Var("a")>>), "hint", Hint(Var("BROADCAST"))), Merge(None, None), TRUE)}

\* MERGE trees that lack one of the arguments merge_sql subscripts
MalformedMerges ==
  {Without(Merge(None, None), "using"),
   Without(Merge(None, None), "condition"),
   With(Merge(None, None), "this", Alias(Var("t"), "d")),
   With(Merge(None, None), "this", Table("t")),
   Merge(DropNoKind("t"), None),
   Union(With(Select(<<Var("a")>>), "hint", Hint(Var("BROADCAST"))),
         Without(Merge(None, None), "using"), TRUE)}

\* a structural error first, an unsupported construct after it
EarlyFailures ==
  {Union(DropNoKind("t"), With(Select(<<Var("a")>>), "hint", Hint(Var("BROADCAST"))), TRUE),
   Union(Without(Merge(None, None), "condition"),
         With(Select(<<Var("a")>>), "hint", Hint(Var("BROADCAST"))), TRUE)}

Configs == {Opts(p, lvl, NoTransforms) : p \in BOOLEAN, lvl \in {IGNORE, WARN, RAISE}}

(***************************************************************************)
(* The state machine: one renderer, any sequence of generate calls         *)
(***************************************************************************)
Construct(o) ==
  /\ opts = o
  /\ transforms = New(o).transforms
  /\ pretty = New(o).pretty
  /\ level = New(o).level
  /\ unsupported_messages = New(o).unsupported_messages
  /\ result = NoResult
  /\ logged = <<>>
  /\ entry = [level |-> 0, pretty |-> o.pretty, unsupported_messages |-> <<>>]

Init ==
  \E o \in Configs :
    Construct(o) /\ expression = None /\ instances = <<>> /\ threads = <<>>

\* one call generate(e); entry records the fields the call started with
Generate(e) ==
  /\ level <= MaxLevel
  /\ \E g \in {generate(Self, e)} :
       /\ pretty' = g.self.pretty
       /\ level' = g.self.level
       /\ unsupported_messages' = g.self.unsupported_messages
       /\ result' = g.result
       /\ logged' = g.logged
  /\ expression' = e
  /\ entry' = [level |-> level, pretty |-> pretty,
                unsupported_messages |-> unsupported_messages]
  /\ UNCHANGED <<opts, transforms, instances, threads>>

GenerateWellformed == \E e \in HintSelects \cup Creates \cup Wellformed : Generate(e)

GenerateMalformed == \E e \in Malformed : Generate(e)

GenerateMerge ==
  \E e \in WellformedMerges \cup MalformedMerges \cup EarlyFailures : Generate(e)

Next == GenerateWellformed \/ GenerateMalformed \/ GenerateMerge

Spec == Init /\ [][Next]_vars

(***************************************************************************)
(* A second machine: a new renderer renders one tree.  Its inputs are the  *)
(* statements with every choice of optional clauses, nested blocks, CASE   *)
(* in the places that suppress formatting, and expressions under dialect   *)
(* overrides of the transform table.                                       *)
(***************************************************************************)
MaxLaterals == 2

ClauseKeys == {"from", "where", "group", "having", "order", "limit"}

ClauseNode(k) ==
  CASE k = "from" -> From(<<Var("t")>>)
    [] k = "where" -> Node("where", [this |-> Gt(Var("a"), Number("1"))])
    [] k = "group" -> Node("group", [expressions |-> <<Var("a")>>])
    [] k = "having" -> Node("having", [this |-> Gt(Var("b"), Number("2"))])
    [] k = "order" -> Node("order", [expressions |->
                         <<Node("ordered", [this |-> Var("b"), desc |-> Str(<<"DESC">>)])>>])
    [] k = "limit" -> Node("limit", [this |-> Number("10")])

LateralName(i) == "l" \o ToString(i)
JoinName(i) == "j" \o ToString(i)

LateralI(i) ==
  Node("lateral", [this |-> Var("explode"), table |-> Var(LateralName(i)),
                   columns |-> <<Var("c")>>, outer |-> (i = 2)])

JoinI(i) ==
  WithOpt(Node("join", [this |-> Var(JoinName(i)), on |-> Eq(Var("a"), Number(ToString(i)))]),
          "side", IF i = 1 THEN Str(<<"LEFT">>) ELSE None)

\* SELECT a, b with the clauses S, nl lateral views and nj joins
MkSelect(S, nl, nj) ==
  Node("select",
       [k \in {"expressions"} \cup S \cup (IF nl > 0 THEN {"laterals"} ELSE {})
               \cup (IF nj > 0 THEN {"joins"} ELSE {}) |->
          CASE k = "expressions" -> <<Var("a"), Var("b")>>
            [] k = "laterals" -> [i \in 1..nl |-> LateralI(i)]
            [] k = "joins" -> [i \in 1..nj |-> JoinI(i)]
            [] OTHER -> ClauseNode(k)])

SelectTrees ==
  {MkSelect(S, nl, nj) : S \in SUBSET ClauseKeys, nl \in 0..MaxLaterals, nj \in 0..MaxJoins}

If(c, v) == Node("if", [this |-> c, true |-> v])
Case1 == Node("case", [ifs |-> <<If(Eq(Var("x"), Number("1")), Var("y"))>>])
Case2 ==
  Node("case", [this |-> Var("k"),
                ifs |-> <<If(Number("1"), Var("y")), If(Number("2"), Case1)>>,
                default |-> Var("w")])
Cases == {Case1, Case2}

Inner == With(Select(<<Var("b")>>), "from", From(<<Var("u")>>))
Outer == MkSelect({"from", "where"}, 0, 0)

\* blocks that cte_sql and alias_sql wrap, and UNION
BlockTrees ==
  {Cte(<<Alias(Inner, "x")>>, Outer),
   With(Cte(<<Alias(Inner, "x"), Alias(Outer, "y")>>, Outer), "recursive", TRUE),
   With(Select(<<Var("a")>>), "from", From(<<Alias(Inner, "s")>>)),
   Select(<<Alias(Inner, "s"), Var("a")>>),
   Union(Outer, Inner, TRUE),
   Union(Outer, Inner, FALSE),
   With(Select(<<Var("a")>>), "where",
        Node("where", [this |-> And(Gt(Var("a"), Number("1")), Eq(Var("b"), Var("c")))])),
   With(Select(<<Var("a")>>), "joins",
        <<Node("join", [this |-> Var("j"), kind |-> Str(<<"INNER">>),
                        on |-> And(Eq(Var("a"), Var("j")), Gt(Var("b"), Number("1")))])>>)}

\* CASE in a fragment rendered under no_format: a projection item, a
\* parenthesised expression, an IN sub-query; what follows the CASE in the
\* fragment (AND, FROM) is rendered after case_sql returned
SuppressedCase(c) ==
  {Select(<<Eq(c, Var("a")), Var("b")>>),
   Select(<<Paren(And(Eq(c, Var("a")), Eq(Var("b"), Var("c"))))>>),
   Paren(Eq(c, And(Var("a"), Var("b")))),
   Node("in", [this |-> Var("a"),
               query |-> With(Select(<<c>>), "from", From(<<Var("t")>>))])}

CaseTrees == UNION {SuppressedCase(c) : c \in Cases}

\* CASE outside any suppression
OpenCaseTrees ==
  Cases \cup {With(Select(<<Var("a")>>), "where", Node("where", [this |-> Eq(c, Var("a"))])) :
                c \in Cases}

Statements == SelectTrees \cup BlockTrees \cup CaseTrees \cup OpenCaseTrees

IntType == Token("TokenType.INT", <<"INT">>)
Cast(this, to) == Node("cast", [this |-> this, to |-> to])
Slash(l, r) == Node("slash", [this |-> l, expression |-> r])
Div(l, r) == Node("div", [this |-> l, expression |-> r])

Operands == {Var("a"), Number("2"), Paren(Node("slash", [this |-> Var("a"), expression |-> Var("b")]))}

DivTrees == {Div(l, r) : l, r \in Operands} \cup {Div(Div(Var("a"), Var("b")), Var("c"))}

ExprTrees ==
  DivTrees
    \cup {IntType, Token("TokenType.BIGINT", <<"BIGINT">>), Token("TokenType.INT", <<"int4">>),
          Var("a"), Cast(Var("a"), IntType), Cast(Var("a"), Token("TokenType.BIGINT", <<"BIGINT">>)),
          Node("arrayagg", [this |-> Var("a")]),
          Select(<<Cast(Var("a"), IntType), Div(Var("a"), Var("b"))>>)}

Override(k, x) == [y \in {k} |-> x]

\* opts['transforms']: nothing, or a dialect's entry for the INT leaf type or
\* for the Cast node kind, a literal (possibly empty) or a function
TransformOptions ==
  {NoTransforms,
   Override("TokenType.INT", Lit(<<"INTEGER">>)),
   Override("TokenType.INT", Lit(<<>>)),
   Override("exp.Cast", Fn("TRY_CAST")),
   Override("exp.Cast", Fn("EMPTY")),
   Override("exp.Cast", Lit(<<"NULL">>)),
   Override("exp.Cast", Lit(<<>>))}

RenderInputs ==
  {[opts |-> Opts(p, WARN, NoTransforms), expression |-> e] : p \in BOOLEAN, e \in Statements}
    \cup {[opts |-> Opts(p, WARN, tr), expression |-> e] :
            p \in BOOLEAN, tr \in TransformOptions, e \in ExprTrees}

InitRender ==
  \E i \in RenderInputs :
    Construct(i.opts) /\ expression = i.expression /\ instances = <<>> /\ threads = <<>>

\* the one call of the new renderer
Render == result = NoResult /\ Generate(expression)

NextRender == Render

SpecRender == InitRender /\ [][NextRender]_vars

(***************************************************************************)
(* A third machine: two threads, each in one generate call, on one shared  *)
(* renderer or on a renderer each.  A call is run as the sequence of its   *)
(* steps, each step with at most one access to a field of the renderer     *)
(* (self.pretty, self._level, self.unsupported_messages); the values a     *)
(* call holds between steps (arguments, `original`, the texts built so     *)
(* far) are on the thread's own stack.  The threads may be switched        *)
(* between any two steps.                                                  *)
(***************************************************************************)
Ins(op, arg) == [op |-> op, arg |-> arg]

RECURSIVE Code(_, _), CodeItems(_, _), CodeCtes(_, _)

\* self.indent(<text on the stack>, pad=pad): reads _level, then pretty
CodeIndent(pad) == <<Ins("read_level", 0), Ins("indent", pad)>>

\* self.no_format(lambda: self.sql(e))
CodeNoFormat(o, e) ==
  <<Ins("save_pretty", 0), Ins("set_pretty", FALSE)>> \o Code(o, e)
    \o <<Ins("restore_pretty", 0)>>

\* the generator expressions() joins: '  ' if self.pretty, no_format, indent
CodeItems(o, es) ==
  IF es = <<>> THEN <<>>
  ELSE <<Ins("lead", 0)>> \o CodeNoFormat(o, Head(es)) \o <<Ins("concat", 0)>>
         \o CodeIndent(0) \o CodeItems(o, Tail(es))

\* self.expressions(e): self.sep(', ') first, then the items, then the join
CodeExpressions(o, e) ==
  <<Ins("sep", <<",", SP>>)>> \o CodeItems(o, e.args.expressions)
    \o <<Ins("join", Len(e.args.expressions))>>

\* self.wrap(e)
CodeWrap(o, e) ==
  <<Ins("read_level", 0), Ins("write_level", 1)>>
    \o Code(o, Arg(e, "this")) \o CodeIndent(0)
    \o <<Ins("read_level", 0), Ins("write_level", -1)>>
    \o <<Ins("sep", <<>>), Ins("sep", <<>>), Ins("push", <<")">>)>> \o CodeIndent(0)
    \o <<Ins("wrap", 0)>>

\* the generator cte_sql joins: alias AS wrap(e)
CodeCtes(o, es) ==
  IF es = <<>> THEN <<>>
  ELSE Code(o, Arg(Head(es), "alias")) \o CodeWrap(o, Head(es)) \o <<Ins("cte_item", 0)>>
         \o CodeCtes(o, Tail(es))

\* self.sql(e) for the leaves and for hint, select (hint and projection
\* list only) and cte nodes
Code(o, e) ==
  CASE e.key = "hint" ->
         Code(o, Arg(e, "this")) \o <<Ins("unsupported", "Hints are not supported")>>
    [] e.key = "select" ->
         Code(o, Arg(e, "hint")) \o CodeExpressions(o, e) \o <<Ins("sep", <<SP>>)>>
           \o <<Ins("select", IF Flag(e, "distinct") THEN <<SP, "DISTINCT">> ELSE <<>>)>>
    [] e.key = "cte" ->
         <<Ins("push", <<",", SP>>)>> \o CodeCtes(o, e.args.expressions)
           \o <<Ins("join", Len(e.args.expressions)), Ins("sep", <<SP>>)>>
           \o Code(o, Arg(e, "this")) \o CodeIndent(0)
           \o <<Ins("cte", IF Flag(e, "recursive") THEN <<"RECURSIVE", SP>> ELSE <<>>)>>
    [] OTHER -> <<Ins("push", Sql(New(o), e).sql)>>

\* generate(e)
CodeGenerate(o, e) == <<Ins("reset", 0)>> \o Code(o, e) \o <<Ins("finish", 0)>>

\* the k-th value from the top of a stack, and the stack without its top n
Top(st, k) == st[Len(st) - k]
Pop(st, n) == SubSeq(st, 1, Len(st) - n)

Ran(self, st) == [self |-> self, stack |-> st, done |-> FALSE]

\* one step of a call on the renderer `self` with the thread's stack st
Exec(ins, self, st) ==
  CASE ins.op = "push" -> Ran(self, Append(st, ins.arg))
    [] ins.op = "reset" -> Ran([self EXCEPT !.unsupported_messages = <<>>], st)
    [] ins.op = "unsupported" ->
         Ran(IF Top(st, 0) # <<>> THEN unsupported(self, ins.arg) ELSE self,
             Append(Pop(st, 1), <<>>))
    [] ins.op = "sep" -> Ran(self, Append(st, sep(self, ins.arg)))
    [] ins.op = "lead" -> Ran(self, Append(st, IF self.pretty THEN <<SP, SP>> ELSE <<>>))
    [] ins.op = "save_pretty" -> Ran(self, Append(st, self.pretty))
    [] ins.op = "set_pretty" -> Ran(SetPretty(self, ins.arg), st)
    [] ins.op = "restore_pretty" ->
         Ran(SetPretty(self, Top(st, 1)), Append(Pop(st, 2), Top(st, 0)))
    [] ins.op = "concat" -> Ran(self, Append(Pop(st, 2), Top(st, 1) \o Top(st, 0)))
    [] ins.op = "read_level" -> Ran(self, Append(st, self.level))
    [] ins.op = "write_level" -> Ran(SetLevel(self, Top(st, 0) + ins.arg), Pop(st, 1))
    [] ins.op = "indent" ->
         Ran(self, Append(Pop(st, 2), indent_at(self, Top(st, 1), Top(st, 0), ins.arg)))
    [] ins.op = "join" ->
         Ran(self, Append(Pop(st, ins.arg + 1),
                          JoinTexts(SubSeq(st, Len(st) - ins.arg + 1, Len(st)),
                                    Top(st, ins.arg))))
    [] ins.op = "select" ->
         Ran(self, Append(Pop(st, 3),
                          <<"SELECT">> \o Top(st, 2) \o ins.arg \o Top(st, 0) \o Top(st, 1)))
    [] ins.op = "wrap" ->
         Ran(self, Append(Pop(st, 4),
                          <<"(">> \o Top(st, 2) \o Top(st, 3) \o Top(st, 1) \o Top(st, 0)))
    [] ins.op = "cte_item" ->
         Ran(self, Append(Pop(st, 2), Top(st, 1) \o <<SP, "AS", SP>> \o Top(st, 0)))
    [] ins.op = "cte" ->
         Ran(self, Append(Pop(st, 3),
                          <<"WITH", SP>> \o ins.arg \o Top(st, 2) \o Top(st, 1) \o Top(st, 0)))
    [] ins.op = "finish" -> [self |-> self, stack |-> st, done |-> TRUE]

\* what the two threads render: two different trees
ThreadTrees ==
  <<Cte(<<Alias(Select(<<Var("b")>>), "x")>>, Select(<<Var("a")>>)),
    With(Select(<<Var("a")>>), "hint", Hint(Var("BROADCAST")))>>

InstanceOf_Shared(sharing, t) == 1

\* the renderer thread t calls generate on: the one renderer of the
\* program, or a renderer constructed for this call
InstanceOf(sharing, t) == IF sharing THEN 1 ELSE t

Thread(o, sharing, t) ==
  [sharing |-> sharing, instance |-> InstanceOf(sharing, t), expression |-> ThreadTrees[t],
   code |-> CodeGenerate(o, ThreadTrees[t]), pc |-> 1, stack |-> <<>>,
   result |-> NoResult]

InitThreads ==
  \E o \in Configs, sharing \in BOOLEAN :
    /\ Construct(o)
    /\ expression = None
    /\ instances = [i \in DOMAIN ThreadTrees |-> New(o)]
    /\ threads = [t \in DOMAIN ThreadTrees |-> Thread(o, sharing, t)]

\* thread t runs the next step of its call
Step(t) ==
  /\ threads[t].result = NoResult
  /\ \E r \in {Exec(threads[t].code[threads[t].pc],
                     instances[threads[t].instance], threads[t].stack)} :
       /\ instances' = [instances EXCEPT ![threads[t].instance] = r.self]
       /\ threads' =
            [threads EXCEPT ![t].pc = @ + 1,
                            ![t].stack = r.stack,
                            ![t].result =
                              IF r.done THEN Outcome(Ret(r.self, Top(r.stack, 0))).result
                              ELSE NoResult]
  /\ UNCHANGED <<opts, transforms, pretty, level, unsupported_messages,
                 expression, result, logged, entry>>

NextThreads == \E t \in DOMAIN ThreadTrees : Step(t)

SpecThreads == InitThreads /\ [][NextThreads]_vars

(***************************************************************************)
(* Reading a tree                                                          *)
(***************************************************************************)
FlagArgs == {"distinct", "recursive", "exists", "temporary", "replace", "outer"}
ListArgs == {"expressions", "laterals", "joins", "ifs", "columns"}

HINT_MESSAGE == "Hints are not supported"
FILEFORMAT_MESSAGE == "File formats are not supported"

\* a hint (k = "hint") or file-format (k = "fileformat") node with content
IsUnsupported(e, k) == IsNode(e) /\ e.key = k /\ Arg(e, "this") \notin {None, Str(<<>>)}

RECURSIVE SumOver(_, _, _), CountSeq(_, _), CountUnsupported(_, _)

\* how many nodes of the tree are hint / file-format nodes with content
CountUnsupported(e, k) ==
  IF ~IsNode(e) THEN 0
  ELSE (IF IsUnsupported(e, k) THEN 1 ELSE 0) + SumOver(e, DOMAIN e.args \ FlagArgs, k)

SumOver(e, keys, k) ==
  IF keys = {} THEN 0
  ELSE LET x == CHOOSE x \in keys : TRUE
       IN (IF x \in ListArgs THEN CountSeq(e.args[x], k) ELSE CountUnsupported(e.args[x], k))
            + SumOver(e, keys \ {x}, k)

CountSeq(es, k) ==
  IF es = <<>> THEN 0 ELSE CountUnsupported(Head(es), k) + CountSeq(Tail(es), k)

\* the tree with every hint and file-format argument that has content taken out
RECURSIVE Bare(_)
Bare(e) ==
  IF ~IsNode(e) THEN e
  ELSE LET kept == {x \in DOMAIN e.args :
                      x \in FlagArgs \cup ListArgs
                        \/ ~(IsUnsupported(e.args[x], "hint")
                               \/ IsUnsupported(e.args[x], "fileformat"))}
       IN Node(e.key,
               [x \in kept |->
                  IF x \in FlagArgs THEN e.args[x]
                  ELSE IF x \in ListArgs
                    THEN [i \in 1..Len(e.args[x]) |-> Bare(e.args[x][i])]
                  ELSE Bare(e.args[x])])

Range(f) == {f[i] : i \in DOMAIN f}

Called == result.outcome # "none"
Completed == result.outcome \in {"return", "UnsupportedError"}

\* the renderer as it was when the last call started
EntrySelf ==
  [opts |-> opts, transforms |-> transforms, pretty |-> entry.pretty, level |-> entry.level,
   unsupported_messages |-> entry.unsupported_messages, exc |-> NoExc]

\* the same, under another severity policy
EntrySelfAt(lvl) == [EntrySelf EXCEPT !.opts.unsupported_level = lvl]

(***************************************************************************)
(* C1                                                                      *)
(***************************************************************************)
\* C1, as stated: under raise, a generate call fails with UnsupportedError
\* exactly when a diagnostic was recorded during its render; the error
\* carries the first diagnostic recorded, and every diagnostic of the tree
\* is in the list by then.
C1_RaiseIffDiagnostic ==
  (Called /\ opts.unsupported_level = RAISE) =>
    /\ result.outcome = "UnsupportedError" <=> unsupported_messages # <<>>
    /\ result.outcome = "UnsupportedError" =>
         /\ result.message = Head(unsupported_messages)
         /\ Len(unsupported_messages)
              = CountUnsupported(expression, "hint") + CountUnsupported(expression, "fileformat")

\* C1, amended: the same for every call whose render ran to its end (no
\* structural error): a KeyError raised after a diagnostic was recorded wins.
C1_RaiseIffDiagnosticWhenRendered ==
  (Completed /\ opts.unsupported_level = RAISE) =>
    /\ result.outcome = "UnsupportedError" <=> unsupported_messages # <<>>
    /\ result.outcome = "UnsupportedError" =>
         /\ result.message = Head(unsupported_messages)
         /\ result.sql = <<>>
         /\ Len(unsupported_messages)
              = CountUnsupported(expression, "hint") + CountUnsupported(expression, "fileformat")

\* a raise-policy call that recorded two different diagnostics and failed
C1_Witness ==
  /\ opts.unsupported_level = RAISE
  /\ result.outcome = "UnsupportedError"
  /\ Len(unsupported_messages) = 2
  /\ unsupported_messages[1] # unsupported_messages[2]

(***************************************************************************)
(* C2                                                                      *)
(***************************************************************************)
\* C2: a hint or file-format node with content is not fatal: it records a
\* diagnostic and adds no text, so under ignore and under warn the call gives
\* the same result, and that result is the one for the tree without its hint
\* and file-format arguments.
C2_UnsupportedIsNonFatal ==
  (Called /\ opts.unsupported_level \in {IGNORE, WARN}) =>
    /\ generate(EntrySelfAt(IGNORE), expression).result = result
    /\ generate(EntrySelfAt(WARN), expression).result = result
    /\ generate(EntrySelf, Bare(expression)).result = result
    /\ Completed =>
         /\ result.outcome = "return"
         /\ Len(unsupported_messages)
              = CountUnsupported(expression, "hint") + CountUnsupported(expression, "fileformat")

\* a warn-policy call on CREATE ... <file format> AS SELECT <hint> ... that
\* returned text and logged both diagnostics
C2_Witness ==
  /\ opts.unsupported_level = WARN
  /\ result.outcome = "return"
  /\ result.sql # <<>>
  /\ Len(logged) = 2
  /\ Bare(expression) # expression

(***************************************************************************)
(* C3                                                                      *)
(***************************************************************************)
\* C3: the diagnostics list is reset when a call starts: after any sequence
\* of calls, the diagnostics a call raises from or logs are the ones a new
\* renderer records for that call's tree.
C3_DiagnosticsAreThisCalls ==
  Called =>
    LET fresh == generate(New(opts), expression)
    IN /\ unsupported_messages = fresh.self.unsupported_messages
       /\ logged = fresh.logged
       /\ result.message = fresh.result.message
       /\ Len(unsupported_messages)
            <= CountUnsupported(expression, "hint") + CountUnsupported(expression, "fileformat")

\* a call that recorded nothing, on a renderer whose previous call left
\* diagnostics in the list
C3_Witness ==
  /\ Called
  /\ entry.unsupported_messages # <<>>
  /\ unsupported_messages = <<>>
  /\ result.outcome = "return"

(***************************************************************************)
(* C4                                                                      *)
(***************************************************************************)
\* C4: whatever calls came before, also ones that failed inside a wrapped
\* sub-block, the indentation level is 0 when a generate call starts.
C4_LevelZeroAtEntry == Called => entry.level = 0

RootKey ==
  IF ClassOf(expression) \in DOMAIN transforms THEN ClassOf(expression)
  ELSE TokenTypeOf(expression)

\* C5: when the merged table has an entry for the root's node kind or leaf
\* type, generate returns that entry's text (a literal entry, the empty one
\* included) or that entry's function applied to the node, not the built-in
\* rendering; when it has none, the built-in rendering.
C5_TableEntryWins ==
  (Called /\ expression \in ExprTrees) =>
    IF RootKey \in DOMAIN transforms
      THEN LET x == transforms[RootKey]
           IN IF x.type = "lit" THEN result = Returned(Strip(x.text))
              ELSE result = Outcome(Apply(EntrySelf, x.fn, expression)).result
      ELSE result = Outcome(IF expression.key = "token" THEN TokenSql(EntrySelf, expression)
                            ELSE Builtin(EntrySelf, expression)).result

(***************************************************************************)
(* C7                                                                      *)
(***************************************************************************)
DROPPED == ""

\* every run of blanks and line breaks collapsed to one space
Collapse(t) ==
  LET m == [i \in 1..Len(t) |->
              IF ~IsSpace(t[i]) THEN t[i]
              ELSE IF i > 1 /\ IsSpace(t[i - 1]) THEN DROPPED ELSE SP]
  IN SelectSeq(m, LAMBDA x : x # DROPPED)

\* collapsed, and the space after "(" and before ")" dropped
Tighten(t) ==
  LET c == Collapse(t)
      m == [i \in 1..Len(c) |->
              IF c[i] = SP /\ ((i > 1 /\ c[i - 1] = "(") \/ (i < Len(c) /\ c[i + 1] = ")"))
                THEN DROPPED ELSE c[i]]
  IN SelectSeq(m, LAMBDA x : x # DROPPED)

\* what a compact renderer with the same options returns for the tree
CompactResult == generate(New([opts EXCEPT !.pretty = FALSE]), expression).result

\* the pretty output opens a wrapped block: "(" and a line break
OpensBlock(t) == \E i \in 1..Len(t) - 1 : t[i] = "(" /\ t[i + 1] = NL

\* C7, as stated: the pretty output of a statement, with every run of
\* whitespace collapsed to one space, is the compact output of the tree.
C7_CollapsedPrettyIsCompact ==
  (Called /\ opts.pretty /\ expression \in Statements /\ result.outcome = "return") =>
    /\ CompactResult.outcome = "return"
    /\ Collapse(result.sql) = CompactResult.sql

\* C7, amended: it is, once the whitespace wrap() puts after "(" and before
\* ")" is dropped as well; with collapsing alone it is for every tree that
\* renders no wrapped block (CTE body, aliased sub-select outside a
\* projection list).
C7_TightenedPrettyIsCompact ==
  (Called /\ opts.pretty /\ expression \in Statements /\ result.outcome = "return") =>
    /\ CompactResult.outcome = "return"
    /\ Tighten(result.sql) = CompactResult.sql
    /\ ~OpensBlock(result.sql) => Collapse(result.sql) = CompactResult.sql

\* a pretty render of WITH ... with two wrapped CTE bodies
C7_Witness ==
  /\ opts.pretty
  /\ result.outcome = "return"
  /\ expression.key = "cte"
  /\ Len(expression.args.expressions) = 2
  /\ OpensBlock(result.sql)

(***************************************************************************)
(* C8                                                                      *)
(***************************************************************************)
RECURSIVE Flatten(_)
Flatten(ts) == IF ts = <<>> THEN <<>> ELSE Head(ts) \o Flatten(Tail(ts))

\* the fragment of one clause, rendered on its own by the same renderer
Fragment(e) == Sql(EntrySelf, e).sql

\* the clause keywords, and the names that tell the lateral views and joins apart
Landmarks ==
  {"FROM", "LATERAL", "JOIN", "WHERE", "GROUP", "HAVING", "ORDER", "LIMIT"}
    \cup {LateralName(i) : i \in 1..MaxLaterals} \cup {JoinName(i) : i \in 1..MaxJoins}

IfPresent(e, k, t) == IF Has(e, k) THEN t ELSE <<>>

\* the landmarks the claim expects for SELECT e, in its fixed clause order
ExpectedLandmarks(e) ==
  IfPresent(e, "from", <<"FROM">>)
    \o Flatten([i \in 1..Len(ListArg(e, "laterals")) |-> <<"LATERAL", LateralName(i)>>])
    \o Flatten([i \in 1..Len(ListArg(e, "joins")) |-> <<"JOIN", JoinName(i)>>])
    \o IfPresent(e, "where", <<"WHERE">>)
    \o IfPresent(e, "group", <<"GROUP">>)
    \o IfPresent(e, "having", <<"HAVING">>)
    \o IfPresent(e, "order", <<"ORDER">>)
    \o IfPresent(e, "limit", <<"LIMIT">>)

\* the SELECT head followed by the fragments of the present clauses
ExpectedSelect(e) ==
  Fragment(MkSelect({}, 0, 0))
    \o Fragment(Arg(e, "from"))
    \o Flatten([i \in 1..Len(ListArg(e, "laterals")) |-> Fragment(e.args.laterals[i])])
    \o Flatten([i \in 1..Len(ListArg(e, "joins")) |-> Fragment(e.args.joins[i])])
    \o Fragment(Arg(e, "where"))
    \o Fragment(Arg(e, "group"))
    \o Fragment(Arg(e, "having"))
    \o Fragment(Arg(e, "order"))
    \o Fragment(Arg(e, "limit"))

\* C8: a SELECT with any subset of its optional clauses renders as its head
\* followed by the fragments of exactly the present clauses, in the order
\* FROM, LATERAL VIEWs, JOINs, WHERE, GROUP BY, HAVING, ORDER BY, LIMIT; an
\* absent clause leaves no keyword and no separator behind.
C8_SelectClauseOrder ==
  (Called /\ expression \in SelectTrees) =>
    /\ result = Returned(ExpectedSelect(expression))
    /\ SelectSeq(result.sql, LAMBDA w : w \in Landmarks) = ExpectedLandmarks(expression)
    /\ ~opts.pretty =>
         \A i \in 1..Len(result.sql) - 1 : ~(IsSpace(result.sql[i]) /\ IsSpace(result.sql[i + 1]))

\* a SELECT with two joins and WHERE and LIMIT but neither FROM nor GROUP BY
C8_Witness ==
  /\ result.outcome = "return"
  /\ expression \in SelectTrees
  /\ Len(ListArg(expression, "joins")) = 2
  /\ Has(expression, "where") /\ Has(expression, "limit")
  /\ ~Has(expression, "from") /\ ~Has(expression, "group")

(***************************************************************************)
(* C9                                                                      *)
(***************************************************************************)
\* the table holds the default rules for what DIV is rewritten into
DefaultCastRules ==
  /\ "exp.Cast" \notin DOMAIN transforms
  /\ "exp.Slash" \notin DOMAIN transforms
  /\ transforms["TokenType.INT"] = TRANSFORMS["TokenType.INT"]

\* C9: DIV(a, b) renders as a CAST node over a slash node over a and b with
\* target type INT renders, which under the default rules for these is
\* exactly CAST(<a> / <b> AS INT).
C9_DivIsCastOfSlash ==
  (Called /\ expression \in DivTrees) =>
    LET a == expression.args.this
        b == expression.args.expression
    IN /\ result = generate(EntrySelf, Cast(Slash(a, b), IntType)).result
       /\ DefaultCastRules =>
            result = Returned(<<"CAST", "(">> \o Fragment(a) \o <<SP, "/", SP>> \o Fragment(b)
                                \o <<SP, "AS", SP, "INT", ")">>)

\* DIV over a DIV, under the default table
C9_Witness ==
  /\ result.outcome = "return"
  /\ expression \in DivTrees
  /\ expression.args.this.key = "div"
  /\ DefaultCastRules

(***************************************************************************)
(* C10                                                                     *)
(***************************************************************************)
\* the atom at i starts a line of its own and is indented
OwnIndentedLine(t, i) ==
  \E j \in 1..(i - 2) : t[j] = NL /\ \A m \in (j + 1)..(i - 1) : t[m] = SP

\* C10: with pretty configured, a CASE inside a no_format suppression still
\* has each WHEN / ELSE arm and END on an indented line of its own; case_sql
\* returns with the pretty flag it was entered with, so what follows the CASE
\* in the suppressed fragment (AND, FROM) is still rendered inline.
C10_CaseArmsUnderSuppression ==
  (Called /\ opts.pretty /\ expression \in CaseTrees) =>
    /\ result.outcome = "return"
    /\ \A i \in 1..Len(result.sql) :
         /\ result.sql[i] \in {"WHEN", "ELSE", "END"} => OwnIndentedLine(result.sql, i)
         /\ result.sql[i] \in {"AND", "FROM"} => result.sql[i - 1] = SP
    /\ \A c \in Cases, p \in BOOLEAN :
         case_sql([EntrySelf EXCEPT !.pretty = p], c).self.pretty = p

\* a pretty render of a IN (SELECT <two-armed CASE with a nested CASE> FROM t)
C10_Witness ==
  /\ opts.pretty
  /\ result.outcome = "return"
  /\ expression.key = "in"
  /\ expression.args.query.args.expressions = <<Case2>>
  /\ \E i \in 1..Len(result.sql) : result.sql[i] = "FROM" /\ result.sql[i - 1] = SP

(***************************************************************************)
(* C11                                                                     *)
(***************************************************************************)
\* a DROP without its kind, or a MERGE without an argument merge_sql subscripts
IsMalformed(e) ==
  /\ IsNode(e)
  /\ \/ e.key = "drop" /\ ~Has(e, "kind")
     \/ e.key = "merge" /\ ~MergeShape(e)

RECURSIVE CountMalformed(_), MalformedOver(_, _), MalformedSeq(_)

\* how many nodes of the tree are malformed
CountMalformed(e) ==
  IF ~IsNode(e) THEN 0
  ELSE (IF IsMalformed(e) THEN 1 ELSE 0) + MalformedOver(e, DOMAIN e.args \ FlagArgs)

MalformedOver(e, keys) ==
  IF keys = {} THEN 0
  ELSE LET x == CHOOSE x \in keys : TRUE
       IN (IF x \in ListArgs THEN MalformedSeq(e.args[x]) ELSE CountMalformed(e.args[x]))
            + MalformedOver(e, keys \ {x})

MalformedSeq(es) ==
  IF es = <<>> THEN 0 ELSE CountMalformed(Head(es)) + MalformedSeq(Tail(es))

\* C11: a generate call on a tree with a DROP that lacks its kind or a MERGE
\* that lacks one of its nested arguments ends in the structural error under
\* every severity policy, ignore included: no text, no UnsupportedError,
\* nothing logged; the diagnostics list holds only hint / file-format
\* diagnostics recorded before the error, none for the error and none from
\* what would have been rendered after it.
C11_StructuralErrorPropagates ==
  Called =>
    /\ (CountMalformed(expression) > 0) <=> (result.outcome = "KeyError")
    /\ result.outcome = "KeyError" =>
         /\ result = Raised("KeyError", "")
         /\ logged = <<>>
         /\ Range(unsupported_messages) \subseteq {HINT_MESSAGE, FILEFORMAT_MESSAGE}
         /\ Len(unsupported_messages)
              <= CountUnsupported(expression, "hint") + CountUnsupported(expression, "fileformat")
         /\ expression \in EarlyFailures => unsupported_messages = <<>>
         /\ \A lvl \in {IGNORE, WARN, RAISE} :
              generate(EntrySelfAt(lvl), expression).result = result

\* under ignore, a MERGE without USING rendered after a SELECT with a hint:
\* the hint's diagnostic is in the list and the call ended in KeyError
C11_Witness ==
  /\ opts.unsupported_level = IGNORE
  /\ result.outcome = "KeyError"
  /\ expression.key = "union"
  /\ expression.args.expression.key = "merge"
  /\ unsupported_messages = <<HINT_MESSAGE>>

(***************************************************************************)
(* Claim C12                                                               *)
(***************************************************************************)
\* what thread t's call gives when it runs alone on a new renderer
Alone(t) == generate(New(opts), threads[t].expression).result

Finished(t) == threads[t].result # NoResult

Sharing == threads # <<>> /\ \A t \in DOMAIN ThreadTrees : threads[t].sharing

\* C12: with one renderer instance per call, whatever the interleaving of
\* the two calls' steps, each call ends with the outcome (text returned,
\* or UnsupportedError and its message) it has when it runs alone, and its
\* renderer ends with level 0 and the pretty flag of its construction; a
\* call's outcome differs from that only on a renderer the two calls share.
C12_PrivateInstancesAreIsolated ==
  \A t \in DOMAIN threads :
    Finished(t) /\ ~Sharing =>
      /\ threads[t].result = Alone(t)
      /\ instances[threads[t].instance].level = 0
      /\ instances[threads[t].instance].pretty = opts.pretty

\* on a shared instance, an interleaving after which one call has returned
\* a text different from the one it returns alone, and a call that alone
\* ends in UnsupportedError has returned text: the other call's reset
\* emptied the diagnostics it was to process
C12_Witness ==
  /\ Sharing
  /\ \E t \in DOMAIN ThreadTrees :
       /\ threads[t].result.outcome = "return"
       /\ Alone(t).outcome = "return"
       /\ threads[t].result # Alone(t)
  /\ \E t \in DOMAIN ThreadTrees :
       /\ threads[t].result.outcome = "return"
       /\ Alone(t).outcome = "UnsupportedError"

(***************************************************************************)
(* Claim C13                                                               *)
(***************************************************************************)
\* the renderer has level 0 and the pretty flag of its construction
AsConstructed(lvl, p) == lvl = 0 /\ p = opts.pretty

\* C13: a renderer is constructed with level 0 and its pretty flag; a
\* generate call that returns text or ends in UnsupportedError leaves the
\* level and the pretty flag as it found them (wrap, no_format and case
\* rendering restore what they changed), so after any sequence of such
\* calls the level is 0 and the pretty flag is the constructed one; and a
\* call that starts there ends with the outcome a new renderer of the same
\* options gives for the tree, whatever the earlier calls left in the
\* diagnostics list.
C13_CompletedCallsRestore ==
  /\ ~Called => AsConstructed(level, pretty)
  /\ Completed =>
       /\ level = entry.level
       /\ pretty = entry.pretty
       /\ AsConstructed(entry.level, entry.pretty) =>
            /\ AsConstructed(level, pretty)
            /\ result = generate(New(opts), expression).result

\* a pretty renderer that an earlier call left with a diagnostic renders a
\* WITH tree, through wrap and no_format, and returns its text
C13_Witness ==
  /\ result.outcome = "return"
  /\ opts.pretty
  /\ AsConstructed(entry.level, entry.pretty)
  /\ entry.unsupported_messages # <<>>
  /\ expression.key = "cte"
  /\ NL \in Range(result.sql)

====
